---- MODULE Spec2Model ----
(***************************************************************************)
(* Model of rc_cell: RcCell<T> = Rc<RefCell<T>> and RcCellWeak<T> =        *)
(* Weak<RefCell<T>>.                                                       *)
(*                                                                         *)
(* A slot is one Rc allocation (strong count, weak count, and the RefCell  *)
(* inside it: borrow flag and value).  Strong handles, weak handles and    *)
(* borrow guards (Ref / RefMut) are the objects a caller holds.            *)
(***************************************************************************)
EXTENDS Integers, FiniteSets, Sequences, TLC

\* ---- bounds ------------------------------------------------------------
\* allocations made in one behaviour (a slot id is never used again)
MaxSlots == 2
\* strong handles, weak handles and guards a caller holds at one time
MaxStrong == 2
MaxWeak == 2
MaxGuards == 2
\* handles and guards of all kinds a caller holds at one time
MaxLive == 3

Slots == 1..MaxSlots
StrongIds == 1..MaxStrong
WeakIds == 1..MaxWeak
GuardIds == 1..MaxGuards
\* T is opaque to the code: two values tell the contents of two slots apart
Values == {1, 2}

\* ---- representation ----------------------------------------------------
\* a handle id that holds no handle / a slot whose value is gone
Nil == 0
\* the pointer of Weak::new(): refers to no allocation
Dangling == 0 - 1
\* RefCell's borrow flag: 0 unused, n > 0 readers, negative writing
UNUSED == 0
NoGuard == [h |-> Nil, k |-> "none"]

VARIABLES
    nextSlot,   \* number of allocations made so far (the next one is nextSlot + 1)
    strong,     \* slot -> Rc strong count
    weak,       \* slot -> Rc weak count as reported by weak_count()
    borrow,     \* slot -> RefCell borrow flag
    val,        \* slot -> contents of the RefCell, Nil once dropped or moved out
    freed,      \* slot -> TRUE once the allocation has been given back
    strongH,    \* strong handle id -> slot, Nil when the id holds no RcCell
    weakH,      \* weak handle id -> slot, Dangling, or Nil when the id holds no RcCellWeak
    guard,      \* guard id -> [h: the RcCell it borrows through, k: "r" | "w" | "none"]
    last        \* the last call: operation, outcome, returned value or handle

vars == <<nextSlot, strong, weak, borrow, val, freed, strongH, weakH, guard, last>>

heap == <<nextSlot, strong, weak, borrow, val, freed>>

Call(op, out, ret) == [op |-> op, out |-> out, ret |-> ret]

\* the caller is between two calls: it has taken the result of the last one
Idle == Call("idle", "ok", Nil)
Ready == last = Idle

\* ---- what a caller can see --------------------------------------------
Allocated(s) == s <= nextSlot
LiveStrong(h) == strongH[h] # Nil
LiveWeak(w) == weakH[w] # Nil
StrongHandles(s) == {h \in StrongIds : strongH[h] = s}
WeakHandles(s) == {w \in WeakIds : weakH[w] = s}
GuardSlot(g) == strongH[guard[g].h]
ReadGuards(s) == {g \in GuardIds : guard[g].k = "r" /\ GuardSlot(g) = s}
WriteGuards(s) == {g \in GuardIds : guard[g].k = "w" /\ GuardSlot(g) = s}
GuardsThrough(h) == {g \in GuardIds : guard[g].h = h}

\* RcCell::strong_count, RcCell::weak_count, RcCell::ptr_eq
strong_count(h) == strong[strongH[h]]
weak_count(h) == weak[strongH[h]]
ptr_eq(a, b) == strongH[a] = strongH[b]

weak_ptr_eq_by_upgrade(a, b) ==
    LET ua == IF weakH[a] \in Slots /\ strong[weakH[a]] # 0 THEN weakH[a] ELSE Nil
        ub == IF weakH[b] \in Slots /\ strong[weakH[b]] # 0 THEN weakH[b] ELSE Nil
    IN ua = ub

\* RcCellWeak::ptr_eq: the two pointers are the same
weak_ptr_eq(a, b) == weakH[a] = weakH[b]

\* Deref: the RefCell a handle reaches
deref(h) == strongH[h]

\* the caller's list f of n handles or guards without entry i: the later
\* entries move up (ids are only names)
RemoveAt(f, i, n, none) ==
    [k \in 1..n |-> IF k < i THEN f[k] ELSE IF k < n THEN f[k + 1] ELSE none]

\* the handles and guards the caller holds at the moment
Live ==
    Cardinality({h \in StrongIds : LiveStrong(h)})
    + Cardinality({w \in WeakIds : LiveWeak(w)})
    + Cardinality({g \in GuardIds : guard[g] # NoGuard})

\* a new handle or guard takes the lowest id not in use (ids are only names),
\* while the caller holds fewer than MaxLive of them
FreshStrong(h) == Live < MaxLive /\ ~LiveStrong(h) /\ \A k \in 1..(h - 1) : LiveStrong(k)
FreshWeak(w) == Live < MaxLive /\ ~LiveWeak(w) /\ \A k \in 1..(w - 1) : LiveWeak(k)
FreshGuard(g) == Live < MaxLive /\ guard[g] = NoGuard /\ \A k \in 1..(g - 1) : guard[k] # NoGuard

Init ==
    /\ nextSlot = 0
    /\ strong = [s \in Slots |-> 0]
    /\ weak = [s \in Slots |-> 0]
    /\ borrow = [s \in Slots |-> UNUSED]
    /\ val = [s \in Slots |-> Nil]
    /\ freed = [s \in Slots |-> FALSE]
    /\ strongH = [h \in StrongIds |-> Nil]
    /\ weakH = [w \in WeakIds |-> Nil]
    /\ guard = [g \in GuardIds |-> NoGuard]
    /\ last = Idle

\* ---- Rc -----------------------------------------------------------------
RcDeallocEarly(ns, nw) == ns = 0

\* the allocation is given back when the last reference of either kind goes:
\* strong count ns and weak count nw are both zero
RcDealloc(ns, nw) == ns = 0 /\ nw = 0

\* Rc::clone: one more strong reference
RcCloneCount(n) == n + 1

RcDropCountKept(n) == n

\* Rc::drop: one strong reference less
RcDropCount(n) == n - 1

\* RcCell::new(value)
New(h, v) ==
    /\ Ready
    /\ FreshStrong(h)
    /\ nextSlot < MaxSlots
    /\ LET s == nextSlot + 1 IN
        /\ nextSlot' = s
        /\ strong' = [strong EXCEPT ![s] = 1]
        /\ weak' = [weak EXCEPT ![s] = 0]
        /\ borrow' = [borrow EXCEPT ![s] = UNUSED]
        /\ val' = [val EXCEPT ![s] = v]
        /\ strongH' = [strongH EXCEPT ![h] = s]
    /\ last' = Call("new", "ok", Nil)
    /\ UNCHANGED <<freed, weakH, guard>>

\* #[derive(Clone)] on RcCell: h2 = h.clone()
Clone(h, h2) ==
    /\ Ready
    /\ LiveStrong(h)
    /\ FreshStrong(h2)
    /\ LET s == strongH[h] IN
        /\ strong' = [strong EXCEPT ![s] = RcCloneCount(strong[s])]
        /\ strongH' = [strongH EXCEPT ![h2] = s]
    /\ last' = Call("clone", "ok", h2)
    /\ UNCHANGED <<nextSlot, freed, weak, borrow, val, weakH, guard>>

\* drop(h): a handle that a live guard borrows cannot be dropped
DropStrong(h) ==
    /\ Ready
    /\ LiveStrong(h)
    /\ GuardsThrough(h) = {}
    /\ LET s == strongH[h]
           n == RcDropCount(strong[s]) IN
        /\ strong' = [strong EXCEPT ![s] = n]
        /\ val' = [val EXCEPT ![s] = IF n = 0 THEN Nil ELSE val[s]]
        /\ freed' = [freed EXCEPT ![s] = RcDealloc(n, weak[s])]
        /\ strongH' = [strongH EXCEPT ![h] = Nil]
    /\ last' = Call("drop", "ok", Nil)
    /\ UNCHANGED <<nextSlot, weak, borrow, weakH, guard>>

RcTryUnwrapNoWeak(ns, nw) ==
    [ok |-> ns = 1 /\ nw = 0, strong |-> IF ns = 1 /\ nw = 0 THEN 0 ELSE ns]

RcTryUnwrapConsumes(ns, nw) ==
    [ok |-> ns = 1, strong |-> IF ns = 1 THEN 0 ELSE ns - 1]

\* Rc::try_unwrap on strong count ns and weak count nw: it succeeds when the
\* caller holds the only strong reference (weak references do not matter)
\* and then takes the strong count to zero; otherwise the count is kept
RcTryUnwrap(ns, nw) ==
    [ok |-> ns = 1, strong |-> IF ns = 1 THEN 0 ELSE ns]

\* RcCell::try_unwrap(this): this is moved in, so no guard borrows it
TryUnwrap(h) ==
    /\ Ready
    /\ LiveStrong(h)
    /\ GuardsThrough(h) = {}
    /\ LET s == strongH[h]
           r == RcTryUnwrap(strong[s], weak[s]) IN
        /\ strong' = [strong EXCEPT ![s] = r.strong]
        /\ freed' = [freed EXCEPT ![s] = RcDealloc(r.strong, weak[s])]
        /\ IF r.ok
           THEN \* Ok(RefCell::into_inner(..)): the value is moved out
               /\ val' = [val EXCEPT ![s] = Nil]
               /\ strongH' = [strongH EXCEPT ![h] = Nil]
               /\ last' = Call("try_unwrap", "ok", val[s])
           ELSE \* Err(Self(rc)): the same handle comes back
               /\ last' = Call("try_unwrap", "err", h)
               /\ UNCHANGED <<val, strongH>>
    /\ UNCHANGED <<nextSlot, weak, borrow, weakH, guard>>

\* Weak::drop: one weak reference less
WeakDropCount(n) == n - 1

WeakIncCountKept(n) == n

\* Rc::downgrade / Weak::clone: one more weak reference
WeakIncCount(n) == n + 1

\* RcCell::downgrade(&self)
Downgrade(h, w) ==
    /\ Ready
    /\ LiveStrong(h)
    /\ FreshWeak(w)
    /\ LET s == strongH[h] IN
        /\ weak' = [weak EXCEPT ![s] = WeakIncCount(weak[s])]
        /\ weakH' = [weakH EXCEPT ![w] = s]
    /\ last' = Call("downgrade", "ok", w)
    /\ UNCHANGED <<nextSlot, freed, strong, borrow, val, strongH, guard>>

WeakNewPtrFirst == CHOOSE s \in Slots : \A t \in Slots : s <= t

\* the pointer Weak::new() makes
WeakNewPtr == Dangling

\* RcCellWeak::new() and Default
WeakNew(w) ==
    /\ Ready
    /\ FreshWeak(w)
    /\ weakH' = [weakH EXCEPT ![w] = WeakNewPtr]
    /\ last' = Call("weak_new", "ok", Nil)
    /\ UNCHANGED <<heap, strongH, guard>>

\* #[derive(Clone)] on RcCellWeak
CloneWeak(w, w2) ==
    /\ Ready
    /\ LiveWeak(w)
    /\ FreshWeak(w2)
    /\ weakH' = [weakH EXCEPT ![w2] = weakH[w]]
    /\ weak' = IF weakH[w] = Dangling THEN weak
               ELSE [weak EXCEPT ![weakH[w]] = WeakIncCount(weak[weakH[w]])]
    /\ last' = Call("weak_clone", "ok", w2)
    /\ UNCHANGED <<nextSlot, freed, strong, borrow, val, strongH, guard>>

\* drop(w)
DropWeak(w) ==
    /\ Ready
    /\ LiveWeak(w)
    /\ weakH' = RemoveAt(weakH, w, MaxWeak, Nil)
    /\ IF weakH[w] = Dangling
       THEN UNCHANGED <<weak, freed>>
       ELSE LET s == weakH[w]
                n == WeakDropCount(weak[s]) IN
            /\ weak' = [weak EXCEPT ![s] = n]
            /\ freed' = [freed EXCEPT ![s] = RcDealloc(strong[s], n)]
    /\ last' = Call("weak_drop", "ok", Nil)
    /\ UNCHANGED <<nextSlot, strong, borrow, val, strongH, guard>>

WeakCanUpgradeDead(p, cnt) == p # Dangling

\* Weak::upgrade's test: the pointer refers to an allocation whose strong
\* count is not zero
WeakCanUpgrade(p, cnt) == p # Dangling /\ cnt[p] # 0

WeakUpgradeCountKept(n) == n

\* Weak::upgrade's effect on the strong count
WeakUpgradeCount(n) == n + 1

\* RcCellWeak::upgrade(&self); h2 receives the handle of Some(..)
Upgrade(w, h2) ==
    /\ Ready
    /\ LiveWeak(w)
    /\ IF WeakCanUpgrade(weakH[w], strong)
       THEN LET s == weakH[w] IN
            /\ FreshStrong(h2)
            /\ strong' = [strong EXCEPT ![s] = WeakUpgradeCount(strong[s])]
            /\ strongH' = [strongH EXCEPT ![h2] = s]
            /\ last' = Call("upgrade", "some", h2)
       ELSE /\ last' = Call("upgrade", "none", Nil)
            /\ UNCHANGED <<strong, strongH>>
    /\ UNCHANGED <<nextSlot, freed, weak, borrow, val, weakH, guard>>

\* ---- RefCell, reached through Deref -------------------------------------
BorrowFlagExclusive(b) ==
    IF b = UNUSED THEN [ok |-> TRUE, flag |-> b + 1] ELSE [ok |-> FALSE, flag |-> b]

\* the flag after a read borrow is taken, or the flag unchanged and ok = FALSE
BorrowFlag(b) ==
    IF b >= UNUSED THEN [ok |-> TRUE, flag |-> b + 1] ELSE [ok |-> FALSE, flag |-> b]

BorrowMutFlagOverReaders(b) ==
    IF b >= UNUSED THEN [ok |-> TRUE, flag |-> UNUSED - 1] ELSE [ok |-> FALSE, flag |-> b]

\* the flag after a write borrow is taken, or the flag unchanged and ok = FALSE
BorrowMutFlag(b) ==
    IF b = UNUSED THEN [ok |-> TRUE, flag |-> UNUSED - 1] ELSE [ok |-> FALSE, flag |-> b]

\* drop of a Ref / of a RefMut
ReleaseFlag(b) == b - 1
ReleaseMutFlag(b) == b + 1

RefusedSwallowed(fallible) == "ok"

\* how a refused borrow reaches the caller: the try_ variants return Err,
\* the others panic
Refused(fallible) == IF fallible THEN "err" ELSE "panic"

TakeBorrow(op, h, g, res, kind, fallible) ==
    /\ Ready
    /\ LiveStrong(h)
    /\ IF res.ok
       THEN /\ FreshGuard(g)
            /\ borrow' = [borrow EXCEPT ![deref(h)] = res.flag]
            /\ guard' = [guard EXCEPT ![g] = [h |-> h, k |-> kind]]
            /\ last' = Call(op, "ok", g)
       ELSE /\ last' = Call(op, Refused(fallible), Nil)
            /\ UNCHANGED <<borrow, guard>>
    /\ UNCHANGED <<nextSlot, freed, strong, weak, val, strongH, weakH>>

\* cell.borrow(), cell.try_borrow(), cell.borrow_mut(), cell.try_borrow_mut()
Borrow(h, g) == TakeBorrow("borrow", h, g, BorrowFlag(borrow[deref(h)]), "r", FALSE)
TryBorrow(h, g) == TakeBorrow("try_borrow", h, g, BorrowFlag(borrow[deref(h)]), "r", TRUE)
BorrowMut(h, g) == TakeBorrow("borrow_mut", h, g, BorrowMutFlag(borrow[deref(h)]), "w", FALSE)
TryBorrowMut(h, g) == TakeBorrow("try_borrow_mut", h, g, BorrowMutFlag(borrow[deref(h)]), "w", TRUE)

\* drop of a guard
DropGuard(g) ==
    /\ Ready
    /\ guard[g] # NoGuard
    /\ LET s == GuardSlot(g) IN
        borrow' = [borrow EXCEPT ![s] = IF guard[g].k = "w" THEN ReleaseMutFlag(borrow[s])
                                                              ELSE ReleaseFlag(borrow[s])]
    /\ guard' = RemoveAt(guard, g, MaxGuards, NoGuard)
    /\ last' = Call("drop_guard", "ok", Nil)
    /\ UNCHANGED <<nextSlot, freed, strong, weak, val, strongH, weakH>>

WriteThroughCopy(vals, s, v) == vals

WriteThroughAll(vals, s, v) == [t \in DOMAIN vals |-> IF vals[t] = Nil THEN Nil ELSE v]

\* the contents after *guard = v
WriteThrough(vals, s, v) == [vals EXCEPT ![s] = v]

\* *g = v through a RefMut
Write(g, v) ==
    /\ Ready
    /\ guard[g].k = "w"
    /\ val' = WriteThrough(val, GuardSlot(g), v)
    /\ last' = Call("write", "ok", v)
    /\ UNCHANGED <<nextSlot, freed, strong, weak, borrow, strongH, weakH, guard>>

\* *g through a Ref or a RefMut
Read(g) ==
    /\ Ready
    /\ guard[g] # NoGuard
    /\ last' = Call("read", "ok", val[GuardSlot(g)])
    /\ UNCHANGED <<heap, strongH, weakH, guard>>

MemSwapClobber(vals, sa, sb) == [vals EXCEPT ![sa] = vals[sb], ![sb] = vals[sb]]

\* mem::swap of the two contents
MemSwap(vals, sa, sb) == [vals EXCEPT ![sa] = vals[sb], ![sb] = vals[sa]]

SwapUnwindLeaks(bor, sa) == bor

\* the panic of the second borrow_mut unwinds: the first RefMut is dropped
SwapUnwind(bor, sa) == [bor EXCEPT ![sa] = ReleaseMutFlag(bor[sa])]

RefCellSwapSelfOk(bor, vals, sa, sb) ==
    IF sa = sb THEN [out |-> "ok", borrow |-> bor, val |-> vals]
    ELSE IF bor[sa] = UNUSED /\ bor[sb] = UNUSED
         THEN [out |-> "ok", borrow |-> bor, val |-> MemSwap(vals, sa, sb)]
         ELSE [out |-> "panic", borrow |-> bor, val |-> vals]

\* RefCell::swap: mem::swap(&mut *self.borrow_mut(), &mut *other.borrow_mut());
\* a refused borrow_mut panics and unwinding drops the guard already taken
RefCellSwap(bor, vals, sa, sb) ==
    LET r1 == BorrowMutFlag(bor[sa]) IN
    IF ~r1.ok THEN [out |-> "panic", borrow |-> bor, val |-> vals]
    ELSE LET bor1 == [bor EXCEPT ![sa] = r1.flag]
             r2 == BorrowMutFlag(bor1[sb]) IN
         IF ~r2.ok
         THEN [out |-> "panic",
               borrow |-> SwapUnwind(bor1, sa),
               val |-> vals]
         ELSE LET bor2 == [bor1 EXCEPT ![sb] = r2.flag]
                  bor3 == [bor2 EXCEPT ![sb] = ReleaseMutFlag(bor2[sb])] IN
              [out |-> "ok",
               borrow |-> [bor3 EXCEPT ![sa] = ReleaseMutFlag(bor3[sa])],
               val |-> MemSwap(vals, sa, sb)]

\* RcCell::swap_with(&self, other)
SwapWith(a, b) ==
    /\ Ready
    /\ LiveStrong(a)
    /\ LiveStrong(b)
    /\ LET r == RefCellSwap(borrow, val, deref(a), deref(b)) IN
        /\ borrow' = r.borrow
        /\ val' = r.val
        /\ last' = Call("swap_with", r.out, Nil)
    /\ UNCHANGED <<nextSlot, freed, strong, weak, strongH, weakH, guard>>

DisplayFmtLeaks(bor, vals, s) ==
    LET r == BorrowFlag(bor[s]) IN
    IF ~r.ok THEN [out |-> "err", ret |-> Nil, borrow |-> bor]
    ELSE [out |-> "ok", ret |-> vals[s], borrow |-> [bor EXCEPT ![s] = r.flag]]

\* impl Display: try_borrow().map_err(|_| FmtError)?, write the contents,
\* the Ref is dropped at the end of the statement
DisplayFmt(bor, vals, s) ==
    LET r == BorrowFlag(bor[s]) IN
    IF ~r.ok THEN [out |-> "err", ret |-> Nil, borrow |-> bor]
    ELSE LET bor1 == [bor EXCEPT ![s] = r.flag] IN
         [out |-> "ok", ret |-> vals[s], borrow |-> [bor1 EXCEPT ![s] = ReleaseFlag(bor1[s])]]

\* format!("{}", h)
Fmt(h) ==
    /\ Ready
    /\ LiveStrong(h)
    /\ LET r == DisplayFmt(borrow, val, deref(h)) IN
        /\ borrow' = r.borrow
        /\ last' = Call("fmt", r.out, r.ret)
    /\ UNCHANGED <<nextSlot, freed, strong, weak, val, strongH, weakH, guard>>

\* h.strong_count(), h.weak_count(), a.ptr_eq(&b): reads only
StrongCount(h) ==
    /\ Ready
    /\ LiveStrong(h)
    /\ last' = Call("strong_count", "ok", strong_count(h))
    /\ UNCHANGED <<heap, strongH, weakH, guard>>

WeakCount(h) ==
    /\ Ready
    /\ LiveStrong(h)
    /\ last' = Call("weak_count", "ok", weak_count(h))
    /\ UNCHANGED <<heap, strongH, weakH, guard>>

PtrEq(a, b) ==
    /\ Ready
    /\ LiveStrong(a)
    /\ LiveStrong(b)
    /\ last' = Call("ptr_eq", "ok", IF ptr_eq(a, b) THEN 1 ELSE 0)
    /\ UNCHANGED <<heap, strongH, weakH, guard>>

\* RcCellWeak::ptr_eq(&self, other)
WeakPtrEq(a, b) ==
    /\ Ready
    /\ LiveWeak(a)
    /\ LiveWeak(b)
    /\ last' = Call("weak_ptr_eq", "ok", IF weak_ptr_eq(a, b) THEN 1 ELSE 0)
    /\ UNCHANGED <<heap, strongH, weakH, guard>>

RefCellBorrowBothUnchecked(bor, sa, sb) == [out |-> "ok", borrow |-> bor]

\* RefCell's eq / cmp: self.borrow() then other.borrow(), both Refs dropped
\* at the end of the expression; a refused borrow panics and unwinding
\* drops the Ref already taken
RefCellBorrowBoth(bor, sa, sb) ==
    LET r1 == BorrowFlag(bor[sa]) IN
    IF ~r1.ok THEN [out |-> "panic", borrow |-> bor]
    ELSE LET bor1 == [bor EXCEPT ![sa] = r1.flag]
             r2 == BorrowFlag(bor1[sb]) IN
         IF ~r2.ok
         THEN [out |-> "panic", borrow |-> [bor1 EXCEPT ![sa] = ReleaseFlag(bor1[sa])]]
         ELSE LET bor2 == [bor1 EXCEPT ![sb] = r2.flag]
                  bor3 == [bor2 EXCEPT ![sb] = ReleaseFlag(bor2[sb])] IN
              [out |-> "ok", borrow |-> [bor3 EXCEPT ![sa] = ReleaseFlag(bor3[sa])]]

\* T's own == and cmp: 1 / 0, and -1 / 0 / 1
ValEq(x, y) == IF x = y THEN 1 ELSE 0
ValCmp(x, y) == IF x < y THEN 0 - 1 ELSE IF x = y THEN 0 ELSE 1

RcEqByPointer(bor, vals, sa, sb, teq) ==
    [out |-> "ok", ret |-> IF sa = sb THEN 1 ELSE 0, borrow |-> bor]

\* derived PartialEq: Rc's == is the RefCells' ==, which is T's == on the
\* borrowed contents; when T is Eq (teq) Rc answers true for one and the
\* same allocation without looking inside
RcEq(bor, vals, sa, sb, teq) ==
    IF teq /\ sa = sb THEN [out |-> "ok", ret |-> 1, borrow |-> bor]
    ELSE LET r == RefCellBorrowBoth(bor, sa, sb) IN
         [out |-> r.out,
          ret |-> IF r.out = "ok" THEN ValEq(vals[sa], vals[sb]) ELSE Nil,
          borrow |-> r.borrow]

\* derived Ord / PartialOrd: the RefCells' cmp on the borrowed contents
RcCmp(bor, vals, sa, sb) ==
    LET r == RefCellBorrowBoth(bor, sa, sb) IN
    [out |-> r.out,
     ret |-> IF r.out = "ok" THEN ValCmp(vals[sa], vals[sb]) ELSE Nil,
     borrow |-> r.borrow]

\* a == b, for a T that is Eq (teq) or only PartialEq
Eq(a, b, teq) ==
    /\ Ready
    /\ LiveStrong(a)
    /\ LiveStrong(b)
    /\ LET r == RcEq(borrow, val, deref(a), deref(b), teq) IN
        /\ borrow' = r.borrow
        /\ last' = Call("eq", r.out, r.ret)
    /\ UNCHANGED <<nextSlot, freed, strong, weak, val, strongH, weakH, guard>>

\* a.cmp(&b)
Cmp(a, b) ==
    /\ Ready
    /\ LiveStrong(a)
    /\ LiveStrong(b)
    /\ LET r == RcCmp(borrow, val, deref(a), deref(b)) IN
        /\ borrow' = r.borrow
        /\ last' = Call("cmp", r.out, r.ret)
    /\ UNCHANGED <<nextSlot, freed, strong, weak, val, strongH, weakH, guard>>

\* the caller takes the result and goes on
Return ==
    /\ ~Ready
    /\ last' = Idle
    /\ UNCHANGED <<heap, strongH, weakH, guard>>

Next ==
    \/ \E h \in StrongIds, v \in Values : New(h, v)
    \/ \E h, h2 \in StrongIds : Clone(h, h2)
    \/ \E h \in StrongIds : DropStrong(h)
    \/ \E h \in StrongIds : TryUnwrap(h)
    \/ \E h \in StrongIds, w \in WeakIds : Downgrade(h, w)
    \/ \E w \in WeakIds : WeakNew(w)
    \/ \E w, w2 \in WeakIds : CloneWeak(w, w2)
    \/ \E w \in WeakIds : DropWeak(w)
    \/ \E w \in WeakIds, h2 \in StrongIds : Upgrade(w, h2)
    \/ \E h \in StrongIds, g \in GuardIds : Borrow(h, g)
    \/ \E h \in StrongIds, g \in GuardIds : TryBorrow(h, g)
    \/ \E h \in StrongIds, g \in GuardIds : BorrowMut(h, g)
    \/ \E h \in StrongIds, g \in GuardIds : TryBorrowMut(h, g)
    \/ \E g \in GuardIds : DropGuard(g)
    \/ \E g \in GuardIds, v \in Values : Write(g, v)
    \/ \E g \in GuardIds : Read(g)
    \/ \E a, b \in StrongIds : SwapWith(a, b)
    \/ \E h \in StrongIds : Fmt(h)
    \/ \E h \in StrongIds : StrongCount(h)
    \/ \E h \in StrongIds : WeakCount(h)
    \/ \E a, b \in StrongIds : PtrEq(a, b)
    \/ \E a, b \in WeakIds : WeakPtrEq(a, b)
    \/ \E a, b \in StrongIds, teq \in BOOLEAN : Eq(a, b, teq)
    \/ \E a, b \in StrongIds : Cmp(a, b)
    \/ Return

Spec == Init /\ [][Next]_vars

\* ---- properties ---------------------------------------------------------
Guards(s) == ReadGuards(s) \cup WriteGuards(s)
Owners(s) == Cardinality(StrongHandles(s))

\* the step is the call A of operation op
Did(op, A) == last'.op = op /\ A

\* the flag of every slot agrees with the guards that are alive: no writer
\* and the flag counts the readers, or one writer, no reader and the flag
\* says writing
BorrowState(s) ==
    \/ WriteGuards(s) = {} /\ borrow[s] = Cardinality(ReadGuards(s))
    \/ Cardinality(WriteGuards(s)) = 1 /\ ReadGuards(s) = {} /\ borrow[s] = UNUSED - 1

BorrowStep ==
    /\ last'.op \in {"borrow", "try_borrow"} =>
          \A h \in StrongIds, g \in GuardIds :
              (Borrow(h, g) \/ TryBorrow(h, g)) =>
                  IF WriteGuards(deref(h)) = {}
                  THEN last'.out = "ok" /\ guard'[g] = [h |-> h, k |-> "r"]
                  ELSE last'.out \in {"panic", "err"} /\ guard' = guard /\ borrow' = borrow
    /\ last'.op \in {"borrow_mut", "try_borrow_mut"} =>
          \A h \in StrongIds, g \in GuardIds :
              (BorrowMut(h, g) \/ TryBorrowMut(h, g)) =>
                  IF Guards(deref(h)) = {}
                  THEN last'.out = "ok" /\ guard'[g] = [h |-> h, k |-> "w"]
                  ELSE last'.out \in {"panic", "err"} /\ guard' = guard /\ borrow' = borrow
    /\ last'.op = "drop_guard" =>
          \A g \in GuardIds :
              DropGuard(g) =>
                  \A s \in Slots :
                      IF s = GuardSlot(g)
                      THEN Cardinality(Guards(s)') = Cardinality(Guards(s)) - 1
                      ELSE /\ Cardinality(ReadGuards(s)') = Cardinality(ReadGuards(s))
                           /\ Cardinality(WriteGuards(s)') = Cardinality(WriteGuards(s))
                           /\ borrow'[s] = borrow[s]

\* C1: every slot has either no write borrow and any number of read
\* borrows, or exactly one write borrow and no read borrow; the discipline
\* is per slot: a borrow through any handle of the slot that would break it
\* is refused, and dropping a guard releases that one borrow only.
C1_BorrowDiscipline ==
    /\ [](\A s \in Slots : BorrowState(s))
    /\ [][BorrowStep]_vars

\* two handles of one slot, one holding a read borrow, the other just refused
\* a write borrow
C1_Witness ==
    /\ last.op = "borrow_mut" /\ last.out = "panic"
    /\ \E g \in GuardIds : guard[g].k = "r" /\ Owners(GuardSlot(g)) = 2
    /\ \A g \in GuardIds : guard[g].k # "w"

CountStep ==
    /\ last'.op = "new" =>
          \A h \in StrongIds, v \in Values : New(h, v) => strong_count(h)' = 1
    /\ last'.op = "clone" =>
          \A h, h2 \in StrongIds :
              Clone(h, h2) => /\ strong_count(h)' = strong_count(h) + 1
                              /\ strong_count(h2)' = strong_count(h)'
    /\ last'.op = "drop" =>
          \A h \in StrongIds :
              (DropStrong(h) /\ Owners(strongH[h]) > 1) =>
                  \A k \in StrongHandles(strongH[h]) \ {h} :
                      strong_count(k)' = strong_count(k) - 1

\* C2: strong_count() through any live handle is the number of live strong
\* handles of its slot: 1 after new, one more per clone, one less per drop.
C2_StrongCount ==
    /\ [](\A h \in StrongIds : LiveStrong(h) => strong_count(h) = Owners(strongH[h]))
    /\ [](\A s \in Slots : strong[s] = Owners(s))
    /\ [][CountStep]_vars

\* a clone was dropped and the count is back to 1
C2_Witness ==
    /\ last.op = "drop"
    /\ \E h \in StrongIds : LiveStrong(h) /\ strong_count(h) = 1

\* C3: every handle made from one RcCell by clone or by downgrade and
\* upgrade reaches the same slot, so a value written through a write borrow
\* of one of them is the value read through each of the others.
SharedStep ==
    /\ last'.op = "clone" =>
          \A h, h2 \in StrongIds : Clone(h, h2) => deref(h2)' = deref(h)
    /\ last'.op = "downgrade" =>
          \A h \in StrongIds, w \in WeakIds : Downgrade(h, w) => weakH'[w] = deref(h)
    /\ last'.op = "upgrade" /\ last'.out = "some" =>
          \A w \in WeakIds, h2 \in StrongIds : Upgrade(w, h2) => deref(h2)' = weakH[w]
    /\ last'.op = "write" =>
          \A g \in GuardIds, v \in Values :
              Write(g, v) =>
                  \A k \in StrongIds : ptr_eq(k, guard[g].h) => val'[deref(k)'] = v
    /\ last'.op = "read" =>
          \A g \in GuardIds :
              Read(g) =>
                  \A k \in StrongIds : ptr_eq(k, guard[g].h) => last'.ret = val[deref(k)]

C3_SharedSlot == [][SharedStep]_vars

\* 2 was written through one of two handles of a slot
C3_Witness ==
    /\ last.op = "write" /\ last.ret = 2
    /\ \E g \in GuardIds : guard[g].k = "w" /\ Owners(GuardSlot(g)) = 2
                           /\ val[GuardSlot(g)] = 2

\* C4: upgrade of a weak handle made by downgrade returns a handle exactly
\* when its slot has a strong owner; the strong count then rises by 1 and
\* the handle is ptr_eq to every strong handle of the slot.
C4_Upgrade ==
    [][\A w \in WeakIds, h2 \in StrongIds :
        (Did("upgrade", Upgrade(w, h2)) /\ weakH[w] \in Slots) =>
            LET s == weakH[w] IN
            /\ last'.out = "some" <=> StrongHandles(s) # {}
            /\ last'.out = "some" =>
                  /\ last'.ret = h2
                  /\ strong'[s] = strong[s] + 1
                  /\ \A k \in StrongHandles(s) : ptr_eq(k, h2)'
            /\ last'.out # "some" => last'.out = "none" /\ strong' = strong /\ strongH' = strongH
      ]_vars

\* an upgrade gave the second handle of a slot
C4_Witness ==
    /\ last.op = "upgrade" /\ last.out = "some"
    /\ \E s \in Slots : Owners(s) = 2 /\ strong[s] = 2 /\ WeakHandles(s) # {}

\* C5: once the strong count of a slot is zero it stays zero, and every
\* upgrade of a weak handle of the slot returns None.
C5_ReleasedForever ==
    [][\A s \in Slots :
        (Allocated(s) /\ strong[s] = 0) =>
            /\ strong'[s] = 0
            /\ \A w \in WeakIds, h2 \in StrongIds :
                  (Did("upgrade", Upgrade(w, h2)) /\ weakH[w] = s) =>
                      last'.out = "none" /\ strongH' = strongH
      ]_vars

\* an upgrade was refused while every weak handle is one of a released slot
C5_Witness ==
    /\ last.op = "upgrade" /\ last.out = "none"
    /\ \E w \in WeakIds : LiveWeak(w)
    /\ \A w \in WeakIds : LiveWeak(w) => weakH[w] \in Slots /\ strong[weakH[w]] = 0

\* C6: try_unwrap(h) succeeds exactly when h is the only strong handle of
\* its slot, whatever the weak handles; it returns the contents of the slot,
\* and the slot is released: none of its weak handles can upgrade.
C6_TryUnwrap ==
    [][\A h \in StrongIds :
        Did("try_unwrap", TryUnwrap(h)) =>
            LET s == strongH[h] IN
            /\ last'.out = "ok" <=> StrongHandles(s) = {h}
            /\ last'.out = "ok" =>
                  /\ last'.ret = val[s]
                  /\ strong'[s] = 0
                  /\ \A k \in StrongIds : strongH'[k] # s
                  /\ \A w \in WeakHandles(s) : ~WeakCanUpgrade(weakH'[w], strong')
      ]_vars

\* the only slot was unwrapped to 2 while a weak handle of it is alive
C6_Witness ==
    /\ last.op = "try_unwrap" /\ last.out = "ok" /\ last.ret = 2
    /\ nextSlot = 1 /\ WeakHandles(1) # {}

\* C7: a try_unwrap refused because the slot has two or more strong owners
\* returns the handle it was given and leaves contents, strong count, weak
\* count and borrow state as they were.
C7_TryUnwrapFailure ==
    [][\A h \in StrongIds :
        (Did("try_unwrap", TryUnwrap(h)) /\ Owners(strongH[h]) >= 2) =>
            /\ last'.out = "err"
            /\ last'.ret = h
            /\ ptr_eq(h, h)' /\ deref(h)' = deref(h)
            /\ UNCHANGED <<val, strong, weak, borrow, strongH, weakH, guard>>
      ]_vars

\* a refused try_unwrap on a slot with two owners and a weak handle
C7_Witness ==
    /\ last.op = "try_unwrap" /\ last.out = "err"
    /\ LiveStrong(last.ret)
    /\ Owners(strongH[last.ret]) = 2 /\ weak[strongH[last.ret]] >= 1

\* C8: swap_with(a, b) on two slots without outstanding borrow completes;
\* a then reads b's former value and b reads a's, both handles keep their
\* slots (ptr_eq stays false) and no count changes.
C8_SwapWith ==
    [][\A a, b \in StrongIds :
        (Did("swap_with", SwapWith(a, b)) /\ ~ptr_eq(a, b) /\ Guards(deref(a)) = {} /\ Guards(deref(b)) = {}) =>
            /\ last'.out = "ok"
            /\ val'[deref(a)'] = val[deref(b)]
            /\ val'[deref(b)'] = val[deref(a)]
            /\ ~ptr_eq(a, b)'
            /\ UNCHANGED <<strongH, weakH, strong, weak, borrow, guard>>
      ]_vars

\* a completed swap of two slots with different contents
C8_Witness ==
    /\ last.op = "swap_with" /\ last.out = "ok"
    /\ LiveStrong(1) /\ LiveStrong(2) /\ ~ptr_eq(1, 2)
    /\ val[deref(1)] # val[deref(2)]

\* C9: swap_with(a, b) while a's slot or b's slot has an outstanding
\* borrow fails with a borrow conflict and leaves the contents and the
\* borrow state of both slots as they were.
C9_SwapWithConflict ==
    [][\A a, b \in StrongIds :
        (Did("swap_with", SwapWith(a, b)) /\ (Guards(deref(a)) # {} \/ Guards(deref(b)) # {})) =>
            /\ last'.out = "panic"
            /\ val' = val
            /\ borrow' = borrow
            /\ guard' = guard
      ]_vars

\* a refused swap while one slot is read-borrowed and the other is free
C9_Witness ==
    /\ last.op = "swap_with" /\ last.out = "panic"
    /\ \E s, t \in Slots : s # t /\ Owners(s) = 1 /\ Owners(t) = 1
                           /\ Guards(s) = {} /\ ReadGuards(t) # {}

\* C10 as stated: every failure reaches the caller as a result value
C10_AllFailuresAreValues == last.out \in {"ok", "some", "none", "err"}

FailureStep ==
    /\ last'.op = "try_unwrap" =>
          \A h \in StrongIds :
              (TryUnwrap(h) /\ Owners(strongH[h]) >= 2) => last'.out = "err"
    /\ last'.op = "try_borrow" =>
          \A h \in StrongIds, g \in GuardIds :
              (TryBorrow(h, g) /\ WriteGuards(deref(h)) # {}) => last'.out = "err"
    /\ last'.op = "try_borrow_mut" =>
          \A h \in StrongIds, g \in GuardIds :
              (TryBorrowMut(h, g) /\ Guards(deref(h)) # {}) => last'.out = "err"
    /\ last'.op = "fmt" =>
          \A h \in StrongIds :
              (Fmt(h) /\ WriteGuards(deref(h)) # {}) => last'.out = "err"
    /\ last'.op = "borrow" =>
          \A h \in StrongIds, g \in GuardIds :
              (Borrow(h, g) /\ WriteGuards(deref(h)) # {}) => last'.out = "panic"
    /\ last'.op = "borrow_mut" =>
          \A h \in StrongIds, g \in GuardIds :
              (BorrowMut(h, g) /\ Guards(deref(h)) # {}) => last'.out = "panic"
    /\ last'.op = "swap_with" =>
          \A a, b \in StrongIds :
              (SwapWith(a, b) /\ (Guards(deref(a)) # {} \/ Guards(deref(b)) # {})) =>
                  last'.out = "panic"
    /\ last'.out \in {"err", "panic"} => UNCHANGED <<heap, strongH, weakH, guard>>

\* C10 (amended): a refused try_unwrap, try_borrow, try_borrow_mut or
\* value format returns an error value; a refused borrow, borrow_mut or
\* swap_with panics instead of returning (as does a comparison that cannot
\* read-borrow); every refusal is reported, takes no effect and is not
\* retried.
C10_FailurePropagation ==
    /\ [](last.out = "err" => last.op \in {"try_unwrap", "try_borrow", "try_borrow_mut", "fmt"})
    /\ [](last.out = "panic" => last.op \in {"borrow", "borrow_mut", "swap_with", "eq", "cmp"})
    /\ [][FailureStep]_vars

\* a read borrow was refused by a panic while a write borrow is out
C10_Witness ==
    /\ last.op = "borrow" /\ last.out = "panic"
    /\ \E g \in GuardIds : guard[g].k = "w"

\* C11: the value of a slot is alive exactly while the slot has a strong
\* handle: the step that drops the last strong handle releases it, whatever
\* weak handles are alive; the allocation itself is given back only when no
\* weak handle is left either.
C11_ValueLifetime ==
    /\ [](\A s \in Slots :
            /\ val[s] # Nil <=> StrongHandles(s) # {}
            /\ freed[s] => Allocated(s) /\ StrongHandles(s) = {} /\ WeakHandles(s) = {})
    /\ [][last'.op = "drop" =>
            \A h \in StrongIds :
                (DropStrong(h) /\ StrongHandles(strongH[h]) = {h}) =>
                    val[strongH[h]] # Nil /\ val'[strongH[h]] = Nil
         ]_vars

\* the last strong handle was dropped while a weak handle is alive: the
\* value is gone, the allocation is not
C11_Witness ==
    /\ last.op = "drop"
    /\ \E s \in Slots : Allocated(s) /\ val[s] = Nil /\ WeakHandles(s) # {} /\ ~freed[s]

\* C12: downgrade keeps the strong count and raises weak_count() by 1;
\* weak_count() is the number of live weak handles of the slot.
C12_WeakCount ==
    /\ [](\A h \in StrongIds :
            LiveStrong(h) => weak_count(h) = Cardinality(WeakHandles(strongH[h])))
    /\ [][/\ last'.op = "downgrade" =>
                \A h \in StrongIds, w \in WeakIds :
                    Downgrade(h, w) =>
                        strong' = strong /\ weak_count(h)' = weak_count(h) + 1
          /\ last'.op = "weak_count" =>
                \A h \in StrongIds :
                    WeakCount(h) => last'.ret = Cardinality(WeakHandles(strongH[h]))
         ]_vars

\* weak_count() answered 2
C12_Witness ==
    /\ last.op = "weak_count" /\ last.ret = 2
    /\ \E s \in Slots : Cardinality(WeakHandles(s)) = 2 /\ StrongHandles(s) # {}

TryStep ==
    /\ last'.op = "try_borrow" =>
          \A h \in StrongIds, g \in GuardIds :
              TryBorrow(h, g) =>
                  IF WriteGuards(deref(h)) # {}
                  THEN last'.out = "err" /\ UNCHANGED <<heap, strongH, weakH, guard>>
                  ELSE /\ last'.out = "ok"
                       /\ guard'[g] = [h |-> h, k |-> "r"]
                       /\ UNCHANGED <<val, strong, weak, strongH, weakH>>
    /\ last'.op = "try_borrow_mut" =>
          \A h \in StrongIds, g \in GuardIds :
              TryBorrowMut(h, g) =>
                  IF Guards(deref(h)) # {}
                  THEN last'.out = "err" /\ UNCHANGED <<heap, strongH, weakH, guard>>
                  ELSE /\ last'.out = "ok"
                       /\ guard'[g] = [h |-> h, k |-> "w"]
                       /\ UNCHANGED <<val, strong, weak, strongH, weakH>>

\* C13: try_borrow and try_borrow_mut never abort: on a conflict they
\* return an error and change nothing, otherwise they succeed; try_borrow
\* conflicts only with a write borrow, try_borrow_mut with any borrow.
C13_FallibleBorrow ==
    /\ [](last.op \in {"try_borrow", "try_borrow_mut"} => last.out \in {"ok", "err"})
    /\ [][TryStep]_vars

\* try_borrow succeeded next to another read borrow
C13_Witness ==
    /\ last.op = "try_borrow" /\ last.out = "ok"
    /\ \A g \in GuardIds : guard[g].k = "r" /\ GuardSlot(g) = GuardSlot(1)

\* C14: the value format returns a formatting error exactly when the slot
\* has a write borrow outstanding, and the contents otherwise (also next to
\* read borrows); the borrow state after the call is the one before it.
C14_Display ==
    [][last'.op = "fmt" =>
        \A h \in StrongIds :
            Fmt(h) =>
                /\ last'.out = "err" <=> WriteGuards(deref(h)) # {}
                /\ last'.out # "err" => last'.out = "ok" /\ last'.ret = val[deref(h)]
                /\ UNCHANGED <<heap, strongH, weakH, guard>>
      ]_vars

\* a value format went through next to a read borrow
C14_Witness ==
    /\ last.op = "fmt" /\ last.out = "ok" /\ last.ret \in Values
    /\ \E g \in GuardIds : guard[g].k = "r" /\ borrow[GuardSlot(g)] = 1

\* C15: == on two strong handles is decided by the contents of their
\* slots, not by the slots: handles of distinct slots are equal exactly when
\* the values are; ptr_eq is true exactly for one and the same slot.
C15_Equality ==
    [][/\ last'.op = "eq" =>
            \A a, b \in StrongIds, teq \in BOOLEAN :
                (Eq(a, b, teq) /\ last'.out = "ok") =>
                    IF ptr_eq(a, b) THEN last'.ret = 1
                    ELSE last'.ret = 1 <=> val[deref(a)] = val[deref(b)]
       /\ last'.op = "ptr_eq" =>
            \A a, b \in StrongIds :
                PtrEq(a, b) => (last'.ret = 1 <=> deref(a) = deref(b))
      ]_vars

\* handles of two slots that hold the same value compared equal
C15_Witness ==
    /\ last.op = "eq" /\ last.out = "ok" /\ last.ret = 1
    /\ LiveStrong(1) /\ LiveStrong(2) /\ ~ptr_eq(1, 2)
    /\ val[deref(1)] = val[deref(2)]

EmptyWeakStep ==
    /\ last'.op = "weak_new" =>
          \A w \in WeakIds :
              WeakNew(w) =>
                  /\ weakH'[w] \notin Slots
                  /\ ~WeakCanUpgrade(weakH'[w], strong')
                  /\ UNCHANGED <<heap, strongH>>
    /\ last'.op = "weak_clone" =>
          \A w, w2 \in WeakIds :
              (CloneWeak(w, w2) /\ weakH[w] = Dangling) =>
                  weakH'[w2] = Dangling /\ UNCHANGED <<heap, strongH>>
    /\ last'.op = "upgrade" =>
          \A w \in WeakIds, h2 \in StrongIds :
              (Upgrade(w, h2) /\ weakH[w] = Dangling) =>
                  last'.out = "none" /\ UNCHANGED <<heap, strongH, weakH>>
    /\ last'.op = "weak_drop" =>
          \A w \in WeakIds :
              (DropWeak(w) /\ weakH[w] = Dangling) => UNCHANGED <<heap, strongH>>
    /\ last'.op # "weak_drop" =>
          \A w \in WeakIds : weakH[w] = Dangling => weakH'[w] = Dangling

\* C16: a weak handle built empty, and every clone of it, never upgrades,
\* whatever slots come and go; making it, trying to upgrade it and dropping
\* it change no slot.
C16_EmptyWeak == [][EmptyWeakStep]_vars

\* an empty weak handle refused to upgrade while a slot is alive
C16_Witness ==
    /\ last.op = "upgrade" /\ last.out = "none"
    /\ \E w \in WeakIds : LiveWeak(w)
    /\ \A w \in WeakIds : LiveWeak(w) => weakH[w] = Dangling
    /\ \E s \in Slots : StrongHandles(s) # {}

\* C17: ptr_eq on weak handles compares the slots they were downgraded
\* from, alive or released: equal for one slot, unequal for two.
C17_WeakPtrEq ==
    [][/\ last'.op = "weak_ptr_eq" =>
            \A a, b \in WeakIds :
                (WeakPtrEq(a, b) /\ weakH[a] \in Slots /\ weakH[b] \in Slots) =>
                    (last'.ret = 1 <=> weakH[a] = weakH[b])
       /\ last'.op \in {"drop", "try_unwrap"} => weakH' = weakH
      ]_vars

\* weak handles of two released slots compared unequal
C17_Witness ==
    /\ last.op = "weak_ptr_eq" /\ last.ret = 0
    /\ weakH[1] \in Slots /\ weakH[2] \in Slots /\ weakH[1] # weakH[2]
    /\ strong[weakH[1]] = 0 /\ strong[weakH[2]] = 0

\* C18: swap_with(a, b) with a and b on one slot never succeeds: with no
\* borrow outstanding either, the second write borrow is refused, and the
\* contents and the borrow state stay as they were.
C18_SwapWithSelf ==
    [][last'.op = "swap_with" =>
        \A a, b \in StrongIds :
            (SwapWith(a, b) /\ ptr_eq(a, b)) =>
                last'.out = "panic" /\ UNCHANGED <<heap, strongH, weakH, guard>>
      ]_vars

\* a swap of two handles of one unborrowed slot was refused
C18_Witness ==
    /\ last.op = "swap_with" /\ last.out = "panic"
    /\ LiveStrong(1) /\ LiveStrong(2) /\ ptr_eq(1, 2)
    /\ \A g \in GuardIds : guard[g] = NoGuard

\* C19: == and cmp on handles of two slots read-borrow both: with a write
\* borrow outstanding on either the comparison panics, otherwise it returns
\* the comparison of the contents; the borrow state is left as it was.
C19_Comparison ==
    [][last'.op \in {"eq", "cmp"} =>
        \A a, b \in StrongIds :
            /\ (Cmp(a, b) /\ ~ptr_eq(a, b)) =>
                  /\ IF WriteGuards(deref(a)) # {} \/ WriteGuards(deref(b)) # {}
                     THEN last'.out = "panic"
                     ELSE last'.out = "ok" /\ last'.ret = ValCmp(val[deref(a)], val[deref(b)])
                  /\ UNCHANGED <<heap, strongH, weakH, guard>>
            /\ \A teq \in BOOLEAN :
                  (Eq(a, b, teq) /\ ~ptr_eq(a, b)) =>
                      /\ IF WriteGuards(deref(a)) # {} \/ WriteGuards(deref(b)) # {}
                         THEN last'.out = "panic"
                         ELSE last'.out = "ok" /\ last'.ret = ValEq(val[deref(a)], val[deref(b)])
                      /\ UNCHANGED <<heap, strongH, weakH, guard>>
      ]_vars

\* a cmp of two slots panicked on a write borrow
C19_Witness ==
    /\ last.op = "cmp" /\ last.out = "panic"
    /\ LiveStrong(1) /\ LiveStrong(2) /\ ~ptr_eq(1, 2)
    /\ \E g \in GuardIds : guard[g].k = "w"

SlotState(s) == <<strong[s], weak[s], borrow[s], val[s], freed[s]>>
OnlySlot(t) == \A s \in Slots : s # t => SlotState(s)' = SlotState(s)

FrameStep ==
    /\ last'.op = "new" => \A s \in Slots : Allocated(s) => SlotState(s)' = SlotState(s)
    /\ last'.op = "clone" => \A h, h2 \in StrongIds : Clone(h, h2) => OnlySlot(strongH[h])
    /\ last'.op = "drop" => \A h \in StrongIds : DropStrong(h) => OnlySlot(strongH[h])
    /\ last'.op = "try_unwrap" => \A h \in StrongIds : TryUnwrap(h) => OnlySlot(strongH[h])
    /\ last'.op = "downgrade" =>
          \A h \in StrongIds, w \in WeakIds : Downgrade(h, w) => OnlySlot(strongH[h])
    /\ last'.op = "upgrade" =>
          \A w \in WeakIds, h2 \in StrongIds : Upgrade(w, h2) => OnlySlot(weakH[w])
    /\ last'.op \in {"borrow", "try_borrow", "borrow_mut", "try_borrow_mut"} =>
          \A h \in StrongIds, g \in GuardIds :
              (Borrow(h, g) \/ TryBorrow(h, g) \/ BorrowMut(h, g) \/ TryBorrowMut(h, g)) =>
                  OnlySlot(strongH[h])
    /\ last'.op = "write" =>
          \A g \in GuardIds, v \in Values : Write(g, v) => OnlySlot(GuardSlot(g))
    /\ last'.op = "swap_with" =>
          \A a, b \in StrongIds :
              SwapWith(a, b) =>
                  /\ \A s \in Slots : s \notin {strongH[a], strongH[b]} => val'[s] = val[s]
                  /\ UNCHANGED <<nextSlot, strong, weak, borrow, freed, strongH, weakH, guard>>
    /\ last'.op \in {"strong_count", "weak_count", "ptr_eq"} =>
          UNCHANGED <<heap, strongH, weakH, guard>>

====
